---- MODULE Spec2Model ----
(***************************************************************************)
(* LiquidRound: the workflow service engine (utils/workflow_service.py),   *)
(* its SQLite store (utils/database.py), the agent runner                  *)
(* (agents/base_agent.py, utils/state.py), the three agents (agents/) and  *)
(* the graph engine (workflow.py).                                         *)
(*                                                                         *)
(* Spec       the service engine: start_workflow, the background task      *)
(*            _execute_workflow with its M&A and IPO pipelines, the thread *)
(*            pool the agent calls are handed to, the store the task       *)
(*            writes and the status poll that reads it.  Every store       *)
(*            write is a step of its own, because a poll runs in another   *)
(*            thread and sees the store between two writes.                *)
(* SpecPool   two runs on the one event loop and thread pool.              *)
(* SpecPoll   one run and a caller polling its status.                     *)
(* SpecRead   the same, the seconds passing during the agent calls.        *)
(* SpecLoop   one run started the way Home.py starts it.                   *)
(* SpecStore  one run and a direct call of the store's status update.      *)
(* SpecAgent  one call of BaseAgent.execute on an in-memory State, for     *)
(*            each of the orchestrator, target_finder and valuer.          *)
(* SpecGraph  one run of the compiled graph: the orchestrator node, the    *)
(*            conditional edge, the three workflow nodes and the except    *)
(*            block of run.                                                *)
(* SpecRoute  _route_workflow on a State of any mode.                      *)
(* SpecSerial serialize_state and deserialize_state on the States the      *)
(*            functions of utils/state.py build.                           *)
(***************************************************************************)
EXTENDS Integers, Sequences, FiniteSets, TLC

VARIABLES
    \* ---- the store (utils/database.py), projected on each workflow_id
    workflows,         \* workflows table: id -> row (NoRow before create_workflow)
    workflow_results,  \* workflow_results rows of the id, in insertion (rowid) order
    messages,          \* messages rows of the id, in insertion (rowid) order
    clock,             \* CURRENT_TIMESTAMP, one second per tick
    tie_order,         \* how this SQLite orders rows whose ORDER BY keys are equal
    budget,            \* how many store calls raise in this run, at most
    \* ---- the service (utils/workflow_service.py)
    pc,                \* where start_workflow / the background task of the id stands
    exc,               \* the exception the task is handling (the `e` of an except block)
    executor,          \* ThreadPoolExecutor: the calls submitted and not yet returned
    future,            \* what the awaited run_in_executor call of the id returned
                       \* (orchestrator_result, target_result, valuation_result)
    faults,            \* store calls of the id that raised so far
    invoked,           \* the agent calls the task of the id handed to the executor
    abort,             \* the store state when a pipeline save_agent_result first raised
    orchestrator_failed, \* the ids whose task entered the except block of line 99
    agent_registry,    \* what _get_agent(name) yields: an instance, None, or an exception
    snapshot,          \* what the last get_workflow_summary returned
    \* ---- one BaseAgent.execute call (agents/base_agent.py)
    apc,               \* position inside execute
    self_name,         \* self.name
    state,             \* the State handed to execute
    locals,            \* execute's locals: result, and e of the except block
    writes,            \* the statuses execute wrote to agent_results[self.name]
    returned,          \* how execute ended: "running", "returned" or "escaped"
    logic,             \* the locals of the _execute_logic call of this execute
    \* ---- the graph engine (workflow.py)
    node,              \* the node of the LangGraph graph the run stands at
    \* ---- serialize_state and deserialize_state (utils/state.py)
    serialized_state,  \* the JSON text serialize_state returned
    deserialized_state \* the State deserialize_state made of it

dbvars == <<workflows, workflow_results, messages>>
envvars == <<tie_order, budget>>
svcvars == <<pc, exc, executor, future, faults, invoked, abort, orchestrator_failed,
             agent_registry>>
serialvars == <<serialized_state, deserialized_state>>
agentvars == <<apc, self_name, state, locals, writes, returned, logic, node,
               serialized_state, deserialized_state>>
vars == <<workflows, workflow_results, messages, clock, tie_order, budget, pc, exc, executor, future,
          faults, invoked, abort, orchestrator_failed, agent_registry, snapshot,
          apc, self_name, state, locals, writes, returned, logic, node,
          serialized_state, deserialized_state>>

(***************************************************************************)
(* Bounds                                                                  *)
(***************************************************************************)
MaxFaults == 2
MaxClock == 1

Workflows == {"w1", "w2"}
Agents == {"orchestrator", "target_finder", "valuer"}
WorkflowTypes == {"buyer_ma", "seller_ma", "ipo", "unknown"}

NoRow == [status |-> "none", workflow_type |-> "none", updated_at |-> 0]
NoType == "None"
NoFuture == [kind |-> "none", workflow_type |-> "unknown", rich |-> FALSE]
NoException == "none"
NotAborted == [at |-> "none", n |-> 0]
NoPayload == [payload |-> "None"]
NoLocals == [result |-> NoPayload, e |-> [type |-> "none", message |-> "None"]]
NoResult == [status |-> "none", result |-> NoPayload, error_message |-> "None"]
NoLogic == [agent |-> "none"]
NoMode == "none"
NoJson == [json |-> "none"]
NoState == [state |-> "none"]
NoSnapshot == [id |-> "none", step |-> "none", workflow |-> NoRow,
               results |-> <<>>, messages |-> <<>>]

(***************************************************************************)
(* The store                                                               *)
(***************************************************************************)

\* A store call that raises (sqlite3.Error out of connect/execute/commit):
\* nothing is committed, the exception goes to the handler `fail`.
TotalFaults == faults["w1"] + faults["w2"]

StorageError(w, fail) ==
    /\ TotalFaults < budget
    /\ faults' = [faults EXCEPT ![w] = @ + 1]
    /\ exc' = [exc EXCEPT ![w] = "StorageError"]
    /\ pc' = [pc EXCEPT ![w] = fail]
    /\ UNCHANGED dbvars

\* UPDATE workflows SET status = ?, [workflow_type = ?,] updated_at = CURRENT_TIMESTAMP
SetStatusRow(row, status, workflow_type) ==
    [status |-> status,
     workflow_type |-> IF workflow_type # NoType THEN workflow_type ELSE row.workflow_type,
     updated_at |-> clock]

\* A faulty variant: the UPDATE has no WHERE id = ? clause.
update_every_workflow_status(w, status, workflow_type, ok, fail) ==
    \/ /\ workflows' = [v \in DOMAIN workflows |->
                            IF workflows[v].status = "none" THEN workflows[v]
                            ELSE SetStatusRow(workflows[v], status, workflow_type)]
       /\ pc' = [pc EXCEPT ![w] = ok]
       /\ UNCHANGED <<workflow_results, messages, faults, exc>>
    \/ StorageError(w, fail)

update_workflow_status(w, status, workflow_type, ok, fail) ==
    \/ /\ workflows' = [workflows EXCEPT ![w] = SetStatusRow(@, status, workflow_type)]
       /\ pc' = [pc EXCEPT ![w] = ok]
       /\ UNCHANGED <<workflow_results, messages, faults, exc>>
    \/ StorageError(w, fail)

\* INSERT INTO workflow_results (workflow_id, agent_name, result_data, status, ...)
ResultRow(agent_name, result_data, status) ==
    [agent_name |-> agent_name, result_data |-> result_data,
     status |-> status, created_at |-> clock]

save_agent_result(w, agent_name, result_data, status, ok, fail) ==
    \/ /\ workflow_results' = [workflow_results EXCEPT
                                 ![w] = Append(@, ResultRow(agent_name, result_data, status))]
       /\ pc' = [pc EXCEPT ![w] = ok]
       /\ UNCHANGED <<workflows, messages, faults, exc>>
    \/ StorageError(w, fail)

\* INSERT INTO messages (workflow_id, role, content)
MessageRow(role, content) ==
    [role |-> role, content |-> content, timestamp |-> clock]

add_message(w, role, content, ok, fail) ==
    \/ /\ messages' = [messages EXCEPT ![w] = Append(@, MessageRow(role, content))]
       /\ pc' = [pc EXCEPT ![w] = ok]
       /\ UNCHANGED <<workflows, workflow_results, faults, exc>>
    \/ StorageError(w, fail)

\* One second passes.
Tick ==
    /\ clock < MaxClock
    /\ clock' = clock + 1
    /\ UNCHANGED <<dbvars, envvars, svcvars, snapshot, agentvars>>

(***************************************************************************)
(* The service: start_workflow                                             *)
(***************************************************************************)

\* Everything a step of the task of one workflow leaves alone besides the
\* store, pc, exc and faults, which the store calls set.
NoteOrchestratorFailed(w) ==
    orchestrator_failed' = IF pc'[w] = "ew_101" THEN orchestrator_failed \cup {w}
                           ELSE orchestrator_failed

TaskFrame(w) ==
    /\ NoteOrchestratorFailed(w)
    /\ UNCHANGED <<clock, envvars, executor, future, invoked, abort,
                   agent_registry, snapshot, agentvars>>

\* create_workflow: INSERT INTO workflows (...) VALUES (?, ?, 'unknown', 'pending')
create_workflow(w) ==
    /\ pc[w] = "idle"
    /\ \/ /\ workflows' = [workflows EXCEPT ![w] =
                [status |-> "pending", workflow_type |-> "unknown", updated_at |-> clock]]
          /\ pc' = [pc EXCEPT ![w] = "start_56"]
          /\ UNCHANGED <<workflow_results, messages, faults, exc>>
       \/ StorageError(w, "start_raised")
    /\ TaskFrame(w)

\* A faulty variant: start_workflow awaits the first step of the task it
\* created before it returns the id.
start_workflow_awaiting(w) ==
    /\ pc[w] = "start_56"
    /\ \/ /\ messages' = [messages EXCEPT ![w] = Append(@, MessageRow("user", "user_query"))]
          /\ workflows' = [workflows EXCEPT ![w] = SetStatusRow(@, "routing", NoType)]
          /\ pc' = [pc EXCEPT ![w] = "ew_69"]
          /\ UNCHANGED <<workflow_results, faults, exc>>
       \/ StorageError(w, "start_raised")
    /\ TaskFrame(w)

\* start_workflow, after create_workflow: the user message, then create_task
\* and the return of the id.  An exception here reaches the caller.
start_workflow(w) ==
    /\ pc[w] = "start_56"
    /\ add_message(w, "user", "user_query", "ew_69", "start_raised")
    /\ TaskFrame(w)

(***************************************************************************)
(* The thread pool and the agents                                          *)
(***************************************************************************)

\* What agent.execute(state), called in a pool thread, hands back.
\* BaseAgent.execute is `async def`: called without await it returns a
\* coroutine object.  A class put in the registry by register_agent may have
\* a plain execute, which returns a dict or raises.
Outcomes(agent) ==
    {[kind |-> "coroutine", workflow_type |-> "unknown", rich |-> FALSE],
     [kind |-> "raise", workflow_type |-> "unknown", rich |-> FALSE]}
    \cup (IF agent = "orchestrator"
          THEN {[kind |-> "dict", workflow_type |-> t, rich |-> FALSE] : t \in WorkflowTypes}
          ELSE {[kind |-> "dict", workflow_type |-> "unknown", rich |-> r] : r \in BOOLEAN})

\* loop.run_in_executor(self.executor, agent.execute, state)
run_in_executor(w, agent) ==
    /\ executor' = executor \cup {[wf |-> w, agent |-> agent]}
    /\ future' = [future EXCEPT ![w] = NoFuture]
    /\ invoked' = [invoked EXCEPT ![w] = Append(@, agent)]

\* A pool thread runs the call to its end and resolves the future.
Worker(w) ==
    \E item \in executor :
        /\ item.wf = w
        /\ \E o \in Outcomes(item.agent) :
               future' = [future EXCEPT ![w] = o]
        /\ executor' = executor \ {item}
        /\ UNCHANGED <<dbvars, clock, envvars, pc, exc, faults, invoked, abort,
                       orchestrator_failed, agent_registry, snapshot, agentvars>>

\* A faulty variant: the call is handed to the pool and not awaited.
NotAwaited(w) == TRUE

\* `await`: the task goes on once the future of its call is resolved.
Awaited(w) == future[w] # NoFuture

\* _get_agent(name), then the call: None skips to `none`, an exception of
\* agent_class() goes to the handler `fail`, an instance is handed to the pool.
GetAndRun(w, agent, run, none, fail) ==
    /\ \/ /\ agent_registry[agent] = "None"
          /\ pc' = [pc EXCEPT ![w] = none]
          /\ UNCHANGED <<exc, executor, future, invoked>>
       \/ /\ agent_registry[agent] = "raises"
          /\ pc' = [pc EXCEPT ![w] = fail]
          /\ exc' = [exc EXCEPT ![w] = "ConstructorError"]
          /\ UNCHANGED <<executor, future, invoked>>
       \/ /\ agent_registry[agent] = "instance"
          /\ run_in_executor(w, agent)
          /\ pc' = [pc EXCEPT ![w] = run]
          /\ UNCHANGED exc
    /\ UNCHANGED <<dbvars, clock, envvars, faults, abort, orchestrator_failed,
                   agent_registry, snapshot, agentvars>>

\* The awaited call raised: the exception goes to the handler.
CallRaised(w, at, handler) ==
    /\ pc[w] = at
    /\ Awaited(w)
    /\ future[w].kind = "raise"
    /\ pc' = [pc EXCEPT ![w] = handler]
    /\ exc' = [exc EXCEPT ![w] = "AgentError"]
    /\ UNCHANGED <<dbvars, faults>>
    /\ TaskFrame(w)

\* result.get(...) or `key in result` on what is not a dict raises.
NotADict(w, at, handler) ==
    /\ pc[w] = at
    /\ future[w].kind # "dict"
    /\ pc' = [pc EXCEPT ![w] = handler]
    /\ exc' = [exc EXCEPT ![w] = "AttributeError"]
    /\ UNCHANGED <<dbvars, faults>>
    /\ TaskFrame(w)

\* The first pipeline save_agent_result that raises: what was durable then.
NoteAbort(w) ==
    abort' = IF faults'[w] > faults[w] /\ abort[w] = NotAborted
             THEN [abort EXCEPT ![w] = [at |-> workflows[w].status, n |-> Len(invoked[w])]]
             ELSE abort

PipelineFrame == UNCHANGED <<clock, envvars, executor, future, invoked, orchestrator_failed,
                             agent_registry, snapshot, agentvars>>

(***************************************************************************)
(* The background task: _execute_workflow                                  *)
(***************************************************************************)

\* line 69
SetRouting(w) ==
    /\ pc[w] = "ew_69"
    /\ update_workflow_status(w, "routing", NoType, "ew_70", "ew_116")
    /\ TaskFrame(w)

\* lines 70-84: _get_agent("orchestrator"), `if not orchestrator`, the call
GetOrchestrator(w) ==
    /\ pc[w] = "ew_70"
    /\ GetAndRun(w, "orchestrator", "ew_82", "ew_73", "ew_116")

\* lines 72-74
OrchestratorMissing(w) ==
    /\ pc[w] = "ew_73"
    /\ update_workflow_status(w, "failed", NoType, "done", "ew_116")
    /\ TaskFrame(w)

\* lines 82-84, the call raised
OrchestratorRaised(w) == CallRaised(w, "ew_82", "ew_101")

\* lines 86-90
SaveOrchestratorResult(w) ==
    /\ pc[w] = "ew_82"
    /\ Awaited(w)
    /\ future[w].kind # "raise"
    /\ save_agent_result(w, "orchestrator", future[w].kind, "success", "ew_92", "ew_101")
    /\ TaskFrame(w)

\* line 92, orchestrator_result.get on what is no dict
OrchestratorResultNotADict(w) == NotADict(w, "ew_92", "ew_101")

\* lines 92-93
SetExecuting(w) ==
    /\ pc[w] = "ew_92"
    /\ future[w].kind = "dict"
    /\ update_workflow_status(w, "executing", future[w].workflow_type, "ew_97", "ew_101")
    /\ TaskFrame(w)

\* lines 106-112: where the task goes after the routing message
Route(workflow_type) ==
    IF workflow_type \in {"buyer_ma", "seller_ma"} THEN "ma_125"
    ELSE IF workflow_type = "ipo" THEN "ipo_204"
    ELSE "ew_112"

\* lines 96-97, then the branch of line 106
AddRoutingMessage(w) ==
    /\ pc[w] = "ew_97"
    /\ add_message(w, "assistant", "routing", Route(future[w].workflow_type), "ew_101")
    /\ TaskFrame(w)

\* lines 99-101
SaveOrchestratorFailed(w) ==
    /\ pc[w] = "ew_101"
    /\ save_agent_result(w, "orchestrator", exc[w], "failed", "ew_102", "ew_116")
    /\ TaskFrame(w)

\* A faulty variant: the failed orchestrator run is put back in the queue.
RequeueAfterOrchestrator(w) ==
    /\ pc[w] = "ew_102"
    /\ update_workflow_status(w, "pending", NoType, "done", "ew_116")
    /\ TaskFrame(w)

\* A faulty variant: the `return` of line 103 is missing.
FallThroughAfterOrchestrator(w) ==
    /\ pc[w] = "ew_102"
    /\ update_workflow_status(w, "failed", NoType, "ma_125", "ew_116")
    /\ TaskFrame(w)

\* lines 102-103
SetFailedAfterOrchestrator(w) ==
    /\ pc[w] = "ew_102"
    /\ update_workflow_status(w, "failed", NoType, "done", "ew_116")
    /\ TaskFrame(w)

\* lines 110-112
CompleteUnknownType(w) ==
    /\ pc[w] = "ew_112"
    /\ update_workflow_status(w, "completed", NoType, "done", "ew_116")
    /\ TaskFrame(w)

\* lines 114-116; an exception here leaves the task
SetFailedWorkflow(w) ==
    /\ pc[w] = "ew_116"
    /\ update_workflow_status(w, "failed", NoType, "ew_117", "crashed")
    /\ TaskFrame(w)

\* line 117
AddErrorMessage(w) ==
    /\ pc[w] = "ew_117"
    /\ add_message(w, "assistant", "workflow_failed", "done", "crashed")
    /\ TaskFrame(w)

(***************************************************************************)
(* _execute_ma_workflow                                                    *)
(***************************************************************************)

\* line 125
AddFindingMessage(w) ==
    /\ pc[w] = "ma_125"
    /\ add_message(w, "assistant", "finding_targets", "ma_127", "ma_199")
    /\ TaskFrame(w)

\* lines 127-134
GetTargetFinder(w) ==
    /\ pc[w] = "ma_127"
    /\ GetAndRun(w, "target_finder", "ma_132", "ma_162", "ma_199")

\* lines 132-134, the call raised
TargetFinderRaised(w) == CallRaised(w, "ma_132", "ma_158")

\* lines 136-140
SaveTargetResult(w) ==
    /\ pc[w] = "ma_132"
    /\ Awaited(w)
    /\ future[w].kind # "raise"
    /\ save_agent_result(w, "target_finder", future[w].kind, "success", "ma_143", "ma_158")
    /\ NoteAbort(w)
    /\ PipelineFrame

\* line 143, target_result.get on what is no dict
TargetResultNotADict(w) == NotADict(w, "ma_143", "ma_158")

\* lines 143-154
AddTargetsMessage(w) ==
    /\ pc[w] = "ma_143"
    /\ future[w].kind = "dict"
    /\ add_message(w, "assistant", IF future[w].rich THEN "found_targets" ELSE "no_targets",
                   "ma_162", "ma_158")
    /\ TaskFrame(w)

\* A faulty variant: the handler of line 156 re-raises.
ReraiseTargetFailed(w) ==
    /\ pc[w] = "ma_158"
    /\ save_agent_result(w, "target_finder", exc[w], "failed", "ma_199", "ma_199")
    /\ NoteAbort(w)
    /\ PipelineFrame

\* lines 156-158
SaveTargetFailed(w) ==
    /\ pc[w] = "ma_158"
    /\ save_agent_result(w, "target_finder", exc[w], "failed", "ma_159", "ma_199")
    /\ NoteAbort(w)
    /\ PipelineFrame

\* line 159
AddTargetErrorMessage(w) ==
    /\ pc[w] = "ma_159"
    /\ add_message(w, "assistant", "target_finder_error", "ma_162", "ma_199")
    /\ TaskFrame(w)

\* line 162
AddValuingMessage(w) ==
    /\ pc[w] = "ma_162"
    /\ add_message(w, "assistant", "performing_valuation", "ma_164", "ma_199")
    /\ TaskFrame(w)

\* lines 164-171
GetValuer(w) ==
    /\ pc[w] = "ma_164"
    /\ GetAndRun(w, "valuer", "ma_169", "ma_194", "ma_199")

\* lines 169-171, the call raised
ValuerRaised(w) == CallRaised(w, "ma_169", "ma_191")

\* lines 173-177
SaveValuationResult(w) ==
    /\ pc[w] = "ma_169"
    /\ Awaited(w)
    /\ future[w].kind # "raise"
    /\ save_agent_result(w, "valuer", future[w].kind, "success", "ma_180", "ma_191")
    /\ NoteAbort(w)
    /\ PipelineFrame

\* line 180, `"valuation_analysis" in valuation_result` on what is no container
ValuationResultNotADict(w) == NotADict(w, "ma_180", "ma_191")

\* lines 180-187
AddValuationMessage(w) ==
    /\ pc[w] = "ma_180"
    /\ future[w].kind = "dict"
    /\ add_message(w, "assistant",
                   IF future[w].rich THEN "valuation_analysis" ELSE "valuation_completed",
                   "ma_194", "ma_191")
    /\ TaskFrame(w)

\* lines 189-191
SaveValuerFailed(w) ==
    /\ pc[w] = "ma_191"
    /\ save_agent_result(w, "valuer", exc[w], "failed", "ma_192", "ma_199")
    /\ NoteAbort(w)
    /\ PipelineFrame

\* line 192
AddValuerErrorMessage(w) ==
    /\ pc[w] = "ma_192"
    /\ add_message(w, "assistant", "valuation_error", "ma_194", "ma_199")
    /\ TaskFrame(w)

\* A faulty variant: the completion write passes a workflow_type again.
SetCompletedRetyped(w) ==
    /\ pc[w] = "ma_194"
    /\ update_workflow_status(w, "completed", "unknown", "ma_195", "ma_199")
    /\ TaskFrame(w)

\* line 194
SetCompleted(w) ==
    /\ pc[w] = "ma_194"
    /\ update_workflow_status(w, "completed", NoType, "ma_195", "ma_199")
    /\ TaskFrame(w)

\* line 195
AddCompleteMessage(w) ==
    /\ pc[w] = "ma_195"
    /\ add_message(w, "assistant", "analysis_complete", "done", "ma_199")
    /\ TaskFrame(w)

\* lines 197-199; an exception here goes to line 114 of _execute_workflow
SetFailedMa(w) ==
    /\ pc[w] = "ma_199"
    /\ update_workflow_status(w, "failed", NoType, "done", "ew_116")
    /\ TaskFrame(w)

(***************************************************************************)
(* _execute_ipo_workflow                                                   *)
(***************************************************************************)

\* line 204
AddIpoMessage(w) ==
    /\ pc[w] = "ipo_204"
    /\ add_message(w, "assistant", "ipo_coming_soon", "ipo_205", "ipo_208")
    /\ TaskFrame(w)

\* line 205
SetCompletedIpo(w) ==
    /\ pc[w] = "ipo_205"
    /\ update_workflow_status(w, "completed", NoType, "done", "ipo_208")
    /\ TaskFrame(w)

\* lines 206-208; an exception here goes to line 114 of _execute_workflow
SetFailedIpo(w) ==
    /\ pc[w] = "ipo_208"
    /\ update_workflow_status(w, "failed", NoType, "done", "ew_116")
    /\ TaskFrame(w)

(***************************************************************************)
(* The status poll: get_workflow_status -> get_workflow_summary            *)
(***************************************************************************)

\* ORDER BY key ASC.  SQLite leaves the order of rows with equal keys
\* undefined: tie_order is rowid order or its reverse (what PRAGMA
\* reverse_unordered_selects switches between).
Before(keys, i, j) ==
    \/ keys[i] < keys[j]
    \/ /\ keys[i] = keys[j]
       /\ IF tie_order = "rowid" THEN i < j ELSE i > j

OrderBy(rows, keys) ==
    [k \in 1..Len(rows) |->
        rows[CHOOSE i \in 1..Len(rows) :
                 Cardinality({j \in 1..Len(rows) : Before(keys, j, i)}) = k - 1]]

\* SELECT ... FROM workflow_results WHERE workflow_id = ? ORDER BY created_at ASC
get_workflow_results(w) ==
    OrderBy(workflow_results[w],
            [i \in 1..Len(workflow_results[w]) |-> workflow_results[w][i].created_at])

\* A faulty variant: the rows carry their age at the time of the read.
get_messages_with_age(w) ==
    OrderBy([i \in 1..Len(messages[w]) |->
                 [messages[w][i] EXCEPT !.timestamp = clock - @]],
            [i \in 1..Len(messages[w]) |-> messages[w][i].timestamp])

\* SELECT ... FROM messages WHERE workflow_id = ? ORDER BY timestamp ASC
get_messages(w) ==
    OrderBy(messages[w], [i \in 1..Len(messages[w]) |-> messages[w][i].timestamp])

PollFrame == UNCHANGED <<dbvars, clock, envvars, svcvars, agentvars>>

\* get_workflow_summary, line 241-243: the workflows row, {} when there is none
PollWorkflow(w) ==
    /\ snapshot.step \in {"none", "done"}
    /\ snapshot' = [id |-> w,
                    step |-> IF workflows[w] = NoRow THEN "done" ELSE "results",
                    workflow |-> workflows[w], results |-> <<>>, messages |-> <<>>]
    /\ PollFrame

\* line 245
PollResults ==
    /\ snapshot.step = "results"
    /\ snapshot' = [snapshot EXCEPT !.results = get_workflow_results(snapshot.id),
                                    !.step = "messages"]
    /\ PollFrame

\* lines 246-254
PollMessages ==
    /\ snapshot.step = "messages"
    /\ snapshot' = [snapshot EXCEPT !.messages = get_messages(snapshot.id),
                                    !.step = "done"]
    /\ PollFrame

(***************************************************************************)
(* The service engine as a whole                                           *)
(***************************************************************************)

GetAgentResults == {"instance", "None", "raises"}

AgentIdle ==
    /\ apc = "off"
    /\ self_name = "none"
    /\ state = <<>>
    /\ locals = NoLocals
    /\ writes = <<>>
    /\ returned = "off"
    /\ logic = NoLogic
    /\ node = "off"
    /\ serialized_state = NoJson
    /\ deserialized_state = NoState

\* The service before any start_workflow: an empty store, `started` the
\* workflows the callers will start.
InitService(started) ==
    /\ workflows = [w \in Workflows |-> NoRow]
    /\ workflow_results = [w \in Workflows |-> <<>>]
    /\ messages = [w \in Workflows |-> <<>>]
    /\ clock = 0
    /\ tie_order \in {"rowid", "reverse"}
    /\ pc = [w \in Workflows |-> IF w \in started THEN "idle" ELSE "off"]
    /\ exc = [w \in Workflows |-> NoException]
    /\ executor = {}
    /\ future = [w \in Workflows |-> NoFuture]
    /\ faults = [w \in Workflows |-> 0]
    /\ invoked = [w \in Workflows |-> <<>>]
    /\ abort = [w \in Workflows |-> NotAborted]
    /\ orchestrator_failed = {}
    /\ agent_registry \in [Agents -> GetAgentResults]
    /\ snapshot = NoSnapshot
    /\ AgentIdle

Task(w) ==
    \/ create_workflow(w)
    \/ start_workflow(w)
    \/ SetRouting(w)
    \/ GetOrchestrator(w)
    \/ OrchestratorMissing(w)
    \/ OrchestratorRaised(w)
    \/ SaveOrchestratorResult(w)
    \/ OrchestratorResultNotADict(w)
    \/ SetExecuting(w)
    \/ AddRoutingMessage(w)
    \/ SaveOrchestratorFailed(w)
    \/ SetFailedAfterOrchestrator(w)
    \/ CompleteUnknownType(w)
    \/ SetFailedWorkflow(w)
    \/ AddErrorMessage(w)
    \/ AddFindingMessage(w)
    \/ GetTargetFinder(w)
    \/ TargetFinderRaised(w)
    \/ SaveTargetResult(w)
    \/ TargetResultNotADict(w)
    \/ AddTargetsMessage(w)
    \/ SaveTargetFailed(w)
    \/ AddTargetErrorMessage(w)
    \/ AddValuingMessage(w)
    \/ GetValuer(w)
    \/ ValuerRaised(w)
    \/ SaveValuationResult(w)
    \/ ValuationResultNotADict(w)
    \/ AddValuationMessage(w)
    \/ SaveValuerFailed(w)
    \/ AddValuerErrorMessage(w)
    \/ SetCompleted(w)
    \/ AddCompleteMessage(w)
    \/ SetFailedMa(w)
    \/ AddIpoMessage(w)
    \/ SetCompletedIpo(w)
    \/ SetFailedIpo(w)

Engine ==
    \/ \E w \in Workflows : Task(w)
    \/ \E w \in Workflows : Worker(w)

\* One workflow run, every store call liable to raise, time passing.
Init ==
    /\ InitService({"w1"})
    /\ budget = MaxFaults

Next ==
    \/ Engine
    \/ Tick

Spec == Init /\ [][Next]_vars

\* Two workflow runs on the one event loop and thread pool.
InitPool ==
    /\ InitService(Workflows)
    /\ budget = 1

SpecPool == InitPool /\ [][Engine]_vars

\* One workflow run and a caller polling its status from another thread.
InitPoll ==
    /\ InitService({"w1"})
    /\ budget = 1

NextPoll ==
    \/ Engine
    \/ Tick
    \/ \E w \in Workflows : PollWorkflow(w)
    \/ PollResults
    \/ PollMessages

SpecPoll == InitPoll /\ [][NextPoll]_vars

\* Home.py, lines 427-431: the caller runs start_workflow on an event loop
\* of its own with run_until_complete, which returns after the loop
\* iteration in which the created task ran to its first await, and then
\* closes the loop.  The task is never resumed: the pool thread still runs
\* the call, its result is delivered to no one.
CloseLoop(w) ==
    /\ pc[w] = "ew_82"
    /\ pc' = [pc EXCEPT ![w] = "loop_closed"]
    /\ UNCHANGED <<dbvars, clock, envvars, exc, executor, future, faults, invoked, abort,
                   orchestrator_failed, agent_registry, snapshot, agentvars>>

\* One workflow run started the way Home.py starts it.
InitLoop ==
    /\ InitService({"w1"})
    /\ budget = 1

NextLoop ==
    \/ Engine
    \/ \E w \in Workflows : CloseLoop(w)

SpecLoop == InitLoop /\ [][NextLoop]_vars

\* One workflow run and a polling caller, with the timing of a real run: the
\* seconds pass while an agent call is in the pool (a call to the model
\* provider) or after the run has ended, and the store writes between two
\* calls fall within one second.
TickWhileAwaiting ==
    /\ \A w \in Workflows :
           pc[w] \in {"off", "ew_82", "ma_132", "ma_169", "done", "crashed", "start_raised"}
    /\ Tick

NextRead ==
    \/ Engine
    \/ TickWhileAwaiting
    \/ \E w \in Workflows : PollWorkflow(w)
    \/ PollResults
    \/ PollMessages

SpecRead == InitPoll /\ [][NextRead]_vars

\* A caller of the store other than the task: db_service.
\* update_workflow_status(id, 'pending') on a workflow that exists.
CallUpdatePending(w) ==
    /\ workflows[w] # NoRow
    /\ workflows' = [workflows EXCEPT ![w] = SetStatusRow(@, "pending", NoType)]
    /\ UNCHANGED <<workflow_results, messages, clock, envvars, svcvars, snapshot, agentvars>>

\* One workflow run, and the store's status update called from outside it.
InitStore ==
    /\ InitService({"w1"})
    /\ budget = 1

NextStore ==
    \/ Engine
    \/ \E w \in Workflows : CallUpdatePending(w)

SpecStore == InitStore /\ [][NextStore]_vars

(***************************************************************************)
(* The agent runner: BaseAgent.execute on an in-memory State               *)
(***************************************************************************)

\* The messages of the exceptions a provider call or _execute_logic raises.
ErrorMessages == {"ProviderUnavailable", "MalformedUpstreamResponse"}

\* How many candidates a response is parsed into, and the revenue figures
\* (in millions) a text or a provider carries, at most.
MaxTargets == 2
MaxRevenue == 2
\* The revenue of the format example "100M".
ExampleRevenue == 100

\* dict.update(u) on d: the keys of u are set, the other keys of d are kept.
Update(d, u) ==
    [k \in DOMAIN d \cup DOMAIN u |-> IF k \in DOMAIN u THEN u[k] ELSE d[k]]

\* The texts of an estimated_revenue: digits, bare or as "100M", "1B",
\* "$100M"; and a text float() does not read.
RevenueForms == {"n", "nM", "nB", "$nM"}
RevenueAmounts == (-1 .. MaxRevenue) \cup {ExampleRevenue}
RevenueText(amount, form) == [amount |-> amount, form |-> form]
NotANumber == RevenueText(0, "n/a")
RevenueTexts ==
    {RevenueText(n, f) : n \in RevenueAmounts, f \in RevenueForms} \cup {NotANumber}

\* A candidate as _parse_targets_from_response builds it (of its seven text
\* fields, the name and the revenue).
CompanyNames == {"c1", "c2"}
Candidate(company_name, estimated_revenue) ==
    [company_name |-> company_name, estimated_revenue |-> estimated_revenue]

\* AgentResult(agent_name, status, result, ..., error_message)
AgentResult(status, result, error_message) ==
    [status |-> status, result |-> result, error_message |-> error_message]

\* A faulty variant: agent_results is replaced by a dict with the one entry.
reset_agent_results(st, agent_name, status, result, error_message) ==
    [st EXCEPT !.agent_results =
                   [a \in DOMAIN st.agent_results |->
                       IF a = agent_name THEN AgentResult(status, result, error_message)
                       ELSE NoResult],
               !.current_agent = IF status = "in_progress" THEN agent_name ELSE "None"]

\* A faulty variant: current_agent is set on in_progress and never cleared.
update_keeping_current_agent(st, agent_name, status, result, error_message) ==
    [st EXCEPT !.agent_results[agent_name] = AgentResult(status, result, error_message),
               !.current_agent = IF status = "in_progress" THEN agent_name ELSE @]

\* update_agent_result: state["agent_results"][agent_name] = agent_result,
\* state["current_agent"] = agent_name if status == "in_progress" else None
update_agent_result(st, agent_name, status, result, error_message) ==
    [st EXCEPT !.agent_results[agent_name] = AgentResult(status, result, error_message),
               !.current_agent = IF status = "in_progress" THEN agent_name ELSE "None"]

\* The States execute is called on: create_initial_state's, with the results
\* earlier agents left in it; and the plain dict the service engine builds
\* ({"user_query": ..., "messages": []}: no "deal", no "agent_results").
\* The payloads the three _execute_logic return (of their keys, the ones
\* read again): orchestrator.py lines 82-86, target_finder.py lines 49-63,
\* valuer.py lines 60-78.
RoutingPayload(mode) == [workflow_type |-> mode]
TargetsPayload(enhanced_targets) ==
    [targets |-> enhanced_targets, target_count |-> Len(enhanced_targets)]
TargetsErrorPayload(e) == [targets |-> <<>>, target_count |-> 0, error |-> e]
ValuationErrorPayload(target_info, financial_analysis, e) ==
    [target_company |-> target_info.company_name, error |-> e,
     financial_analysis |-> financial_analysis]

\* What the provider lookup of _enhance_with_financial_data adds to a
\* candidate it finds (of its seven keys, two).
Enrichment == [ticker |-> "TICK", sector |-> "Technology"]

EarlierPayload(agent) ==
    CASE agent = "orchestrator" -> RoutingPayload("buyer_ma")
      [] agent = "target_finder" -> TargetsPayload(<<>>)
      [] agent = "valuer" ->
             ValuationErrorPayload([company_name |-> "None"],
                                   [data_source |-> "estimated"], "ProviderUnavailable")

EarlierResults(agent) ==
    {NoResult, AgentResult("success", EarlierPayload(agent), "None"),
     AgentResult("error", NoPayload, "ProviderUnavailable")}

\* The first candidate of a target_finder result: any revenue text, found by
\* the provider lookup or not.
FoundCandidates ==
    {Candidate("c1", t) : t \in RevenueTexts}
    \cup {Update(Candidate("c1", t), Enrichment) : t \in RevenueTexts}

Modes == {"buyer_ma", "seller_ma", "ipo"}
NoDeal == [deal_id |-> "none", deal_type |-> "none", company_name |-> "None",
           industry |-> "None"]
EarlierMessages == {<<>>, <<[role |-> "user", content |-> "user_query"]>>}

\* create_initial_state(mode, user_query), with results and messages put in
\* it since.
CreatedState(mode, agent_results, msgs) ==
    [has_deal |-> TRUE, has_agent_results |-> TRUE, agent_results |-> agent_results,
     current_agent |-> "None", mode |-> mode, messages |-> msgs,
     workflow_status |-> "initialized", user_query |-> "user_query",
     deal |-> [deal_id |-> "deal_1", deal_type |-> mode, company_name |-> "None",
               industry |-> "None"]]

\* update_deal_info(state, **kwargs): the keys the deal has are assigned
\* (state.py, lines 130-136).
update_deal_info(st, kwargs) ==
    [st EXCEPT !.deal = [k \in DOMAIN st.deal |->
                            IF k \in DOMAIN kwargs THEN kwargs[k] ELSE st.deal[k]]]

\* The deal of a caller that named the company before the agents ran.
NamedDeal == [company_name |-> "d1", industry |-> "Software"]

\* A target_finder call that was cancelled inside _execute_logic
\* (CancelledError is not an Exception: the except of line 88 lets it
\* pass), which leaves its in_progress entry in the State.
CancelledIn(st, agent) == update_agent_result(st, agent, "in_progress", NoPayload, "None")

\* The dict the service engine builds and hands to every agent of a run
\* (workflow_service.py, lines 83 and 122): user_query and messages, no
\* "deal", no "agent_results"; nothing is assigned to it afterwards.
ServiceState ==
    [has_deal |-> FALSE, has_agent_results |-> FALSE,
     agent_results |-> [a \in Agents |-> NoResult], current_agent |-> "None",
     mode |-> NoMode, messages |-> <<>>, workflow_status |-> "none",
     user_query |-> "user_query", deal |-> NoDeal]

InitialStates ==
    {CreatedState("buyer_ma", [orchestrator |-> o, target_finder |-> t, valuer |-> v], m) :
         o \in EarlierResults("orchestrator"), t \in EarlierResults("target_finder"),
         v \in EarlierResults("valuer"), m \in EarlierMessages}
    \cup {CreatedState("buyer_ma",
                       [orchestrator |-> AgentResult("success", EarlierPayload("orchestrator"),
                                                     "None"),
                        target_finder |-> AgentResult("success", TargetsPayload(<<c>>), "None"),
                        valuer |-> NoResult], <<>>) : c \in FoundCandidates}
    \cup {update_deal_info(
              CreatedState("buyer_ma",
                           [orchestrator |-> AgentResult("success",
                                                         EarlierPayload("orchestrator"), "None"),
                            target_finder |-> t, valuer |-> NoResult], <<>>),
              NamedDeal) :
              t \in EarlierResults("target_finder")
                     \cup {AgentResult("success",
                                       TargetsPayload(<<Candidate("c1", NotANumber)>>), "None")}}
    \cup {CancelledIn(CreatedState("buyer_ma",
                                   [orchestrator |-> AgentResult("success",
                                                         EarlierPayload("orchestrator"), "None"),
                                    target_finder |-> NoResult, valuer |-> NoResult], <<>>),
                      "target_finder")}
    \cup {ServiceState}

LogicFrame == UNCHANGED <<dbvars, clock, envvars, svcvars, snapshot, self_name, node, serialvars>>
AgentFrame == LogicFrame /\ UNCHANGED logic

\* An exception raised inside the try block: to the except block of line 88.
Raise(type, message) ==
    /\ locals' = [locals EXCEPT !.e = [type |-> type, message |-> message]]
    /\ apc' = "except"
    /\ UNCHANGED <<state, writes, returned>>

\* An exception raised inside the except block leaves execute.
Escape ==
    /\ apc' = "end"
    /\ returned' = "escaped"
    /\ UNCHANGED <<state, writes, locals>>

\* lines 56-61: state["deal"]["deal_id"] is evaluated, then the trace is
\* appended to the agent's log file, which may fail
LogStart ==
    /\ apc = "log_start"
    /\ \/ /\ ~state.has_deal
          /\ Raise("KeyError", "deal")
       \/ /\ state.has_deal
          /\ Raise("OSError", "log")
       \/ /\ state.has_deal
          /\ apc' = "in_progress"
          /\ UNCHANGED <<state, writes, locals, returned>>
    /\ AgentFrame

\* lines 64-66
WriteInProgress ==
    /\ apc = "in_progress"
    /\ IF state.has_agent_results
       THEN /\ state' = update_agent_result(state, self_name, "in_progress", NoPayload, "None")
            /\ writes' = Append(writes, "in_progress")
            /\ apc' = "logic"
            /\ UNCHANGED <<locals, returned>>
       ELSE Raise("KeyError", "agent_results")
    /\ AgentFrame

(***************************************************************************)
(* _execute_logic of the three agents                                      *)
(***************************************************************************)

\* What `await self._call_llm(messages)` does in target_finder and valuer:
\* it returns the response, or raises e (base_agent.py, lines 133-140).
LlmOutcomes ==
    {[raised |-> FALSE, e |-> "None"]}
    \cup {[raised |-> TRUE, e |-> m] : m \in ErrorMessages}

\* The same call in the orchestrator, whose response is searched for the
\* three mode names: `contains` are the names that occur in
\* llm_response.lower().
LlmResponses ==
    {[raised |-> TRUE, contains |-> {}]}
    \cup {[raised |-> FALSE, contains |-> S] : S \in SUBSET Modes}

\* A faulty variant: the names are tried in the order buyer_ma, ipo,
\* seller_ma.
RefineModeBuyerFirst(mode, llm_response) ==
    IF llm_response.raised THEN mode
    ELSE IF "buyer_ma" \in llm_response.contains THEN "buyer_ma"
    ELSE IF "ipo" \in llm_response.contains THEN "ipo"
    ELSE IF "seller_ma" \in llm_response.contains THEN "seller_ma"
    ELSE mode

\* orchestrator.py, lines 63-77: the if/elif chain on the response, inside
\* the try whose except keeps the keyword mode.
RefineMode(mode, llm_response) ==
    IF llm_response.raised THEN mode
    ELSE IF "seller_ma" \in llm_response.contains THEN "seller_ma"
    ELSE IF "ipo" \in llm_response.contains THEN "ipo"
    ELSE IF "buyer_ma" \in llm_response.contains THEN "buyer_ma"
    ELSE mode

\* A faulty variant: the mode is returned and not written to the State.
OrchestratorLogicReadOnly ==
    /\ self_name = "orchestrator"
    /\ \E keyword \in Modes, llm_response \in LlmResponses :
           /\ logic' = [agent |-> "orchestrator", keyword |-> keyword,
                        llm_response |-> llm_response]
           /\ locals' = [locals EXCEPT
                           !.result = RoutingPayload(RefineMode(keyword, llm_response))]
    /\ apc' = "success"
    /\ UNCHANGED <<state, writes, returned>>

\* OrchestratorAgent._execute_logic from line 25 on: the keyword pass
\* leaves one of the three modes, the LLM pass refines it, line 80 writes it
\* to the State, lines 82-86 return it.
OrchestratorLogic ==
    /\ self_name = "orchestrator"
    /\ \E keyword \in Modes, llm_response \in LlmResponses :
           /\ logic' = [agent |-> "orchestrator", keyword |-> keyword,
                        llm_response |-> llm_response]
           /\ state' = [state EXCEPT !.mode = RefineMode(keyword, llm_response)]
           /\ locals' = [locals EXCEPT
                           !.result = RoutingPayload(RefineMode(keyword, llm_response))]
    /\ apc' = "success"
    /\ UNCHANGED <<writes, returned>>

\* The lists _parse_targets_from_response builds from a response.
ParsedCandidates ==
    {Candidate(n, RevenueText(ExampleRevenue, "nM")) : n \in CompanyNames}
ParsedLists == UNION {[1..k -> ParsedCandidates] : k \in 0..MaxTargets}

\* The provider lookup for one candidate: a ticker with a marketCap is
\* found; none is (every guess raised or had no marketCap); or the outer
\* try raised.
Lookups == {"found", "not_found", "raises"}

\* A faulty variant: the candidate whose lookup raised is skipped.
enhance_found_or_skip(targets, lookups) ==
    IF targets # <<>> /\ lookups[Len(targets)] = "raises"
    THEN SubSeq(targets, 1, Len(targets) - 1)
    ELSE targets

\* target_finder.py, lines 87-126: each target is copied, updated with the
\* provider's data when found, and appended in every case.
_enhance_with_financial_data(targets, lookups) ==
    [i \in 1..Len(targets) |->
        IF lookups[i] = "found" THEN Update(targets[i], Enrichment) ELSE targets[i]]

\* TargetFinderAgent._execute_logic, lines 38-63.
TargetFinderLogic ==
    /\ self_name = "target_finder"
    /\ \E llm \in LlmOutcomes :
           IF llm.raised
           THEN /\ logic' = [agent |-> "target_finder", llm |-> llm,
                             targets |-> <<>>, lookups |-> <<>>]
                /\ locals' = [locals EXCEPT !.result = TargetsErrorPayload(llm.e)]
           ELSE \E targets \in ParsedLists :
                \E lookups \in [1..Len(targets) -> Lookups] :
                    /\ logic' = [agent |-> "target_finder", llm |-> llm,
                                 targets |-> targets, lookups |-> lookups]
                    /\ locals' = [locals EXCEPT
                                    !.result = TargetsPayload(
                                        _enhance_with_financial_data(targets, lookups))]
    /\ apc' = "success"
    /\ UNCHANGED <<state, writes, returned>>

\* A faulty variant: the target_finder result is not looked at.
extract_deal_only(st) ==
    [company_name |-> st.deal.company_name, industry |-> st.deal.industry]

\* valuer.py, lines 80-96
_extract_target_info(st) ==
    LET target_info == [company_name |-> st.deal.company_name,
                        industry |-> st.deal.industry]
        target_result == st.agent_results["target_finder"]
    IN  IF /\ target_result.status = "success"
           /\ "targets" \in DOMAIN target_result.result
           /\ target_result.result.targets # <<>>
        THEN Update(target_info, target_result.result.targets[1])
        ELSE target_info

\* A number or None, as a metric holds it.
PyNone == [none |-> TRUE, value |-> 0]
Num(v) == [none |-> FALSE, value |-> v]
Truthy(x) == ~x.none /\ x.value # 0

\* lines 153-161: float() of the text without 'M', 'B' and '$', times 1000
\* when the text has a 'B'; 0 when float() raises.
ParseRevenue(revenue_str) ==
    IF revenue_str.form = "n/a" THEN 0
    ELSE IF revenue_str.form = "nB" THEN revenue_str.amount * 1000
    ELSE revenue_str.amount

\* valuer.py, lines 148-173 (of the metrics, the revenue: what
\* metrics.get('revenue_ttm') and metrics.get('revenue_estimate', 0) read).
_estimate_financial_metrics(target_info) ==
    [revenue_ttm |-> PyNone,
     revenue_estimate |->
         ParseRevenue(IF "estimated_revenue" \in DOMAIN target_info
                      THEN target_info.estimated_revenue
                      ELSE RevenueText(0, "n"))]

\* What yf.Ticker(ticker).info and the comparables lookup do: the property
\* raises; it is None; it is an empty dict; it is a dict, with a
\* totalRevenue or None.
ProviderRevenues == {PyNone} \cup {Num(v) : v \in (0 .. MaxRevenue) \cup {ExampleRevenue}}
NotLookedUp == [kind |-> "none", totalRevenue |-> PyNone, comparables_raise |-> FALSE]
ProviderInfos ==
    {[kind |-> k, totalRevenue |-> PyNone, comparables_raise |-> FALSE] :
        k \in {"raises", "None"}}
    \cup {[kind |-> "empty", totalRevenue |-> PyNone, comparables_raise |-> c] :
            c \in BOOLEAN}
    \cup {[kind |-> "info", totalRevenue |-> r, comparables_raise |-> c] :
            r \in ProviderRevenues, c \in BOOLEAN}

\* valuer.py, lines 98-146
_perform_financial_analysis(target_info, info) ==
    LET estimated == _estimate_financial_metrics(target_info)
        no_metrics == [revenue_ttm |-> PyNone, revenue_estimate |-> 0]
    IN  IF "ticker" \notin DOMAIN target_info
        THEN [data_source |-> "estimated", metrics |-> estimated]
        ELSE IF info.kind \in {"raises", "None"}
        THEN [data_source |-> "estimated", metrics |-> estimated]
        ELSE IF info.kind = "empty"
        THEN [data_source |-> "estimated",
              metrics |-> IF info.comparables_raise THEN estimated ELSE no_metrics]
        ELSE [data_source |-> "yfinance",
              metrics |-> IF info.comparables_raise THEN estimated
                          ELSE [revenue_ttm |-> info.totalRevenue, revenue_estimate |-> 0]]

\* metrics.get('revenue_ttm') or metrics.get('revenue_estimate', 0)
Revenue(metrics) ==
    IF Truthy(metrics.revenue_ttm) THEN metrics.revenue_ttm.value
    ELSE metrics.revenue_estimate

\* valuer.py, lines 233-243
_extract_key_metrics(analysis) == [revenue |-> Revenue(analysis.metrics)]

rev_multiple_low == 2
rev_multiple_mid == 4
rev_multiple_high == 6

\* A faulty variant: the range is left out when there is no revenue.
range_or_nothing(analysis) ==
    IF Revenue(analysis.metrics) > 0
    THEN [low |-> Revenue(analysis.metrics) * rev_multiple_low,
          mid |-> Revenue(analysis.metrics) * rev_multiple_mid,
          high |-> Revenue(analysis.metrics) * rev_multiple_high]
    ELSE [omitted |-> TRUE]

\* valuer.py, lines 245-272
_estimate_valuation_range(analysis) ==
    IF Revenue(analysis.metrics) > 0
    THEN [low |-> Revenue(analysis.metrics) * rev_multiple_low,
          mid |-> Revenue(analysis.metrics) * rev_multiple_mid,
          high |-> Revenue(analysis.metrics) * rev_multiple_high]
    ELSE [low |-> 0, mid |-> 0, high |-> 0]

\* valuer.py, lines 60-69
ValuationPayload(target_info, financial_analysis) ==
    [target_company |-> target_info.company_name,
     financial_analysis |-> financial_analysis,
     key_metrics |-> _extract_key_metrics(financial_analysis),
     valuation_range |-> _estimate_valuation_range(financial_analysis)]

\* ValuerAgent._execute_logic, lines 23-78
ValuerLogic ==
    /\ self_name = "valuer"
    /\ \E llm \in LlmOutcomes :
       \E info \in IF "ticker" \in DOMAIN _extract_target_info(state)
                   THEN ProviderInfos ELSE {NotLookedUp} :
           LET target_info == _extract_target_info(state)
               financial_analysis == _perform_financial_analysis(target_info, info)
           IN  /\ logic' = [agent |-> "valuer", llm |-> llm, target_info |-> target_info,
                            info |-> info]
               /\ locals' = [locals EXCEPT
                               !.result =
                                   IF llm.raised
                                   THEN ValuationErrorPayload(target_info,
                                                              financial_analysis, llm.e)
                                   ELSE ValuationPayload(target_info, financial_analysis)]
    /\ apc' = "success"
    /\ UNCHANGED <<state, writes, returned>>

\* _create_messages formats the system prompt with the context and catches
\* KeyError only (base_agent.py, lines 122-125): another exception of it
\* leaves _execute_logic, before any provider is called.
LogicRaises ==
    /\ \E m \in ErrorMessages : Raise("AgentError", m)
    /\ UNCHANGED logic

\* line 69: result = await self._execute_logic(state)
ExecuteLogic ==
    /\ apc = "logic"
    /\ \/ OrchestratorLogic
       \/ TargetFinderLogic
       \/ ValuerLogic
       \/ LogicRaises
    /\ LogicFrame

\* lines 71-76
WriteSuccess ==
    /\ apc = "success"
    /\ state' = update_agent_result(state, self_name, "success", locals.result, "None")
    /\ writes' = Append(writes, "success")
    /\ apc' = "log_complete"
    /\ UNCHANGED <<locals, returned>>
    /\ AgentFrame

\* lines 78-86
LogComplete ==
    /\ apc = "log_complete"
    /\ \/ Raise("OSError", "log")
       \/ /\ apc' = "end"
          /\ returned' = "returned"
          /\ UNCHANGED <<state, writes, locals>>
    /\ AgentFrame

\* A faulty variant: the except block logs and re-raises.
ReraiseException ==
    /\ apc = "except"
    /\ Escape
    /\ AgentFrame

\* lines 88-95
HandleException ==
    /\ apc = "except"
    /\ IF state.has_agent_results
       THEN /\ state' = update_agent_result(state, self_name, "error", NoPayload,
                                            locals.e.message)
            /\ writes' = Append(writes, "error")
            /\ apc' = "log_error"
            /\ UNCHANGED <<locals, returned>>
       ELSE Escape
    /\ AgentFrame

\* lines 97-107: state["deal"]["deal_id"] is evaluated for the log entry
LogErrorAndReturn ==
    /\ apc = "log_error"
    /\ IF state.has_deal
       THEN /\ apc' = "end"
            /\ returned' = "returned"
            /\ UNCHANGED <<state, writes, locals>>
       ELSE Escape
    /\ AgentFrame

ServiceIdle ==
    /\ workflows = [w \in Workflows |-> NoRow]
    /\ workflow_results = [w \in Workflows |-> <<>>]
    /\ messages = [w \in Workflows |-> <<>>]
    /\ clock = 0
    /\ tie_order = "rowid"
    /\ budget = 0
    /\ pc = [w \in Workflows |-> "off"]
    /\ exc = [w \in Workflows |-> NoException]
    /\ executor = {}
    /\ future = [w \in Workflows |-> NoFuture]
    /\ faults = [w \in Workflows |-> 0]
    /\ invoked = [w \in Workflows |-> <<>>]
    /\ abort = [w \in Workflows |-> NotAborted]
    /\ orchestrator_failed = {}
    /\ agent_registry = [a \in Agents |-> "instance"]
    /\ snapshot = NoSnapshot

InitAgent ==
    /\ ServiceIdle
    /\ apc = "log_start"
    /\ self_name \in Agents
    /\ state \in InitialStates
    /\ locals = NoLocals
    /\ writes = <<>>
    /\ returned = "running"
    /\ logic = NoLogic
    /\ node = "off"
    /\ serialized_state = NoJson
    /\ deserialized_state = NoState

execute ==
    \/ LogStart
    \/ WriteInProgress
    \/ ExecuteLogic
    \/ WriteSuccess
    \/ LogComplete
    \/ HandleException
    \/ LogErrorAndReturn

SpecAgent == InitAgent /\ [][execute]_vars

(***************************************************************************)
(* The graph engine: LiquidRoundWorkflow (workflow.py)                     *)
(***************************************************************************)

\* utils/state.py add_message: state["messages"].append(message)
append_message(st, role, content) ==
    [st EXCEPT !.messages = Append(@, [role |-> role, content |-> content])]

\* A faulty variant: every State goes to the buyer workflow.
route_to_default(st) == "buyer_ma"

\* lines 136-145: mode = state.get("mode", "buyer_ma"), then the if/elif
_route_workflow(st) ==
    LET mode == IF st.mode = NoMode THEN "buyer_ma" ELSE st.mode
    IN  IF mode = "seller_ma" THEN "seller_ma"
        ELSE IF mode = "ipo" THEN "ipo"
        ELSE "buyer_ma"

\* lines 43-51: the node each value of _route_workflow leads to
ConditionalEdges ==
    [buyer_ma |-> "buyer_ma_workflow", seller_ma |-> "seller_ma_workflow",
     ipo |-> "ipo_workflow"]

\* `state = await agent.execute(state)`: the call begins
CallExecute(agent) ==
    /\ apc' = "log_start"
    /\ self_name' = agent
    /\ locals' = NoLocals
    /\ writes' = <<>>
    /\ returned' = "running"
    /\ logic' = NoLogic
    /\ UNCHANGED <<dbvars, clock, envvars, svcvars, snapshot, state, node, serialvars>>

\* lines 65-67: the entry node calls the orchestrator
CallOrchestrator ==
    /\ node = "orchestrator"
    /\ apc = "off"
    /\ CallExecute("orchestrator")

\* lines 69-76: the mode is taken from the orchestrator's result, if it has
\* one; then the conditional edge is taken
OrchestratorNodeReturn ==
    /\ node = "orchestrator"
    /\ apc = "end"
    /\ returned = "returned"
    /\ LET orchestrator_result == state.agent_results["orchestrator"].result
       IN  state' = IF /\ state.agent_results["orchestrator"].status # "none"
                       /\ orchestrator_result # NoPayload
                       /\ "workflow_type" \in DOMAIN orchestrator_result
                    THEN [state EXCEPT !.mode = orchestrator_result.workflow_type]
                    ELSE state
    /\ node' = "route"
    /\ apc' = "off"
    /\ UNCHANGED <<dbvars, clock, envvars, svcvars, snapshot, self_name, locals, writes,
                   returned, logic, serialvars>>

\* lines 43-51 and 136-145
RouteWorkflow ==
    /\ node = "route"
    /\ node' = ConditionalEdges[_route_workflow(state)]
    /\ UNCHANGED <<dbvars, clock, envvars, svcvars, snapshot, apc, self_name, state, locals,
                   writes, returned, logic, serialvars>>

\* line 83
CallTargetFinder ==
    /\ node = "buyer_ma_workflow"
    /\ apc = "off"
    /\ CallExecute("target_finder")

\* line 86
CallValuer ==
    /\ node = "buyer_ma_workflow"
    /\ self_name = "target_finder"
    /\ apc = "end"
    /\ returned = "returned"
    /\ CallExecute("valuer")

\* The end of a workflow node: the message, the status, the edge to END.
CompleteWorkflow(content) ==
    /\ state' = [append_message(state, "assistant", content)
                    EXCEPT !.workflow_status = "completed"]
    /\ node' = "END"
    /\ apc' = "off"
    /\ UNCHANGED <<dbvars, clock, envvars, svcvars, snapshot, self_name, locals, writes,
                   returned, logic, serialvars>>

\* lines 88-98
CompleteBuyerMa ==
    /\ node = "buyer_ma_workflow"
    /\ self_name = "valuer"
    /\ apc = "end"
    /\ returned = "returned"
    /\ CompleteWorkflow("buyer_ma_completed")

\* lines 100-116
SellerMaWorkflow ==
    /\ node = "seller_ma_workflow"
    /\ CompleteWorkflow("seller_ma_initiated")

\* lines 118-134
IpoWorkflow ==
    /\ node = "ipo_workflow"
    /\ CompleteWorkflow("ipo_initiated")

\* The checkpointer (SqliteSaver on db/liquidround.db, line 59) writes the
\* State after each step of the graph.  An sqlite3 error of it leaves astream
\* and reaches the except block of run, lines 177-190: error_state =
\* initial_state.copy(), workflow_status "error", one assistant message.  The
\* copy is shallow: whether the agent_results and messages the nodes wrote
\* are those of initial_state depends on whether the graph handed the nodes
\* the same objects.
RunExcept ==
    /\ node \in {"orchestrator", "route"}
    /\ apc = "off"
    /\ \E shared \in BOOLEAN :
           LET initial_state ==
                   CreatedState(state.deal.deal_type,
                                IF shared THEN state.agent_results
                                ELSE [a \in Agents |-> NoResult],
                                IF shared THEN state.messages ELSE <<>>)
           IN  state' = append_message([initial_state EXCEPT !.workflow_status = "error"],
                                       "assistant", "error_occurred")
    /\ node' = "run_except"
    /\ UNCHANGED <<dbvars, clock, envvars, svcvars, snapshot, apc, self_name, locals, writes,
                   returned, logic, serialvars>>

\* The States the compiled graph is started on: run creates one of mode
\* buyer_ma (line 153); States of the other modes, and of a mode that is
\* none of the three, come from the callers that create their own.
CreatedModes == Modes \cup {"unknown"}

InitGraph ==
    /\ ServiceIdle
    /\ apc = "off"
    /\ self_name = "none"
    /\ \E mode \in CreatedModes :
           state = CreatedState(mode, [a \in Agents |-> NoResult], <<>>)
    /\ locals = NoLocals
    /\ writes = <<>>
    /\ returned = "off"
    /\ logic = NoLogic
    /\ node = "orchestrator"
    /\ serialized_state = NoJson
    /\ deserialized_state = NoState

NextGraph ==
    \/ CallOrchestrator
    \/ execute
    \/ OrchestratorNodeReturn
    \/ RouteWorkflow
    \/ CallTargetFinder
    \/ CallValuer
    \/ CompleteBuyerMa
    \/ SellerMaWorkflow
    \/ IpoWorkflow
    \/ RunExcept

SpecGraph == InitGraph /\ [][NextGraph]_vars

\* _route_workflow applied to a State of any mode, or of none.
RoutedStates ==
    {[st EXCEPT !.mode = mode] : st \in InitialStates, mode \in CreatedModes \cup {NoMode}}

InitRoute ==
    /\ ServiceIdle
    /\ apc = "off"
    /\ self_name = "orchestrator"
    /\ state \in RoutedStates
    /\ locals = NoLocals
    /\ writes = <<>>
    /\ returned = "off"
    /\ logic = NoLogic
    /\ node = "route"
    /\ serialized_state = NoJson
    /\ deserialized_state = NoState

SpecRoute == InitRoute /\ [][RouteWorkflow]_vars

(***************************************************************************)
(* Properties of the service engine                                        *)
(***************************************************************************)

Terminal == {"completed", "failed"}
Ended(w) == pc[w] \in {"done", "crashed"}
PipelineAgents == {"target_finder", "valuer"}
Range(seq) == {seq[i] : i \in 1..Len(seq)}

Rank(status) ==
    CASE status = "none" -> 0
      [] status = "pending" -> 1
      [] status = "routing" -> 2
      [] status = "executing" -> 3
      [] status \in Terminal -> 4

\* C1: the persisted status of a workflow never moves backwards in the order
\* pending < routing < executing < {completed, failed}, whatever the agents
\* return and whichever store calls raise.
C1_StatusMonotonic ==
    [][\A w \in Workflows :
          Rank(workflows'[w].status) >= Rank(workflows[w].status)]_vars

\* C1 witness: a run that lost store writes and ended failed after executing.
C1_Witness ==
    /\ pc["w1"] = "done"
    /\ faults["w1"] >= 1
    /\ workflows["w1"].status = "failed"
    /\ workflows["w1"].workflow_type = "buyer_ma"

\* C2: once the persisted status is completed or failed, no later step of
\* the run changes it.
C2_TerminalIsFinal ==
    [][\A w \in Workflows :
          workflows[w].status \in Terminal
              => workflows'[w].status = workflows[w].status]_vars

C8_AbortOnStorageError ==
    \A w \in Workflows :
        abort[w] # NotAborted
        => /\ Len(invoked[w]) = abort[w].n
           /\ workflows[w].status = abort[w].at
           /\ pc[w] # "start_raised"

\* C9: a workflow has at most one agent call in the pool at any time, and
\* valuer is in the pool only when target_finder's call has returned and,
\* if target_finder was called, a result row for it has been written; with
\* two runs sharing the pool.
C9_SequentialAgents ==
    \A w \in Workflows :
        /\ Cardinality({item \in executor : item.wf = w}) <= 1
        /\ [wf |-> w, agent |-> "valuer"] \in executor
           => /\ [wf |-> w, agent |-> "target_finder"] \notin executor
              /\ "target_finder" \in Range(invoked[w])
                 => \E i \in 1..Len(workflow_results[w]) :
                        workflow_results[w][i].agent_name = "target_finder"

\* C9 witness: both runs have a call in the pool, one of them valuer's after
\* target_finder's was recorded.
C9_Witness ==
    /\ [wf |-> "w1", agent |-> "valuer"] \in executor
    /\ [wf |-> "w2", agent |-> "target_finder"] \in executor
    /\ invoked["w1"] = <<"orchestrator", "target_finder", "valuer">>

\* start_workflow has returned the id and the task it created has not run.
Returned(w) == pc[w] = "ew_69"

\* C12: start_workflow hands no call to the pool and waits for none; when it
\* has returned the id and the task has taken no step yet, a poll shows
\* status pending, workflow_type unknown, no results and a message log that
\* is exactly the user's query.
C12_StartDoesNotWait ==
    \A w \in Workflows :
        /\ pc[w] \in {"idle", "start_56", "start_raised", "ew_69"}
           => /\ invoked[w] = <<>>
              /\ {item \in executor : item.wf = w} = {}
        /\ Returned(w)
           => /\ workflows[w].status = "pending"
              /\ workflows[w].workflow_type = "unknown"
              /\ get_workflow_results(w) = <<>>
              /\ Len(get_messages(w)) = 1
              /\ get_messages(w)[1].role = "user"
              /\ get_messages(w)[1].content = "user_query"

\* C12 witness: start_workflow returned the id of w1, nothing else has run.
C12_Witness ==
    /\ Returned("w1")
    /\ workflows["w1"].status = "pending"
    /\ Len(messages["w1"]) = 1
    /\ faults["w1"] = 0
    /\ tie_order = "reverse"

\* The task of w will take no further step.
Stopped(w) == pc[w] \in {"done", "crashed", "loop_closed"}

\* C13: every workflow whose start_workflow returned an id reaches completed
\* or failed, also when the caller's event loop is closed right after the
\* return: with no store call raising, a task that takes no further step
\* has left its workflow completed or failed.
C13_RunsToTerminal ==
    \A w \in Workflows :
        (Stopped(w) /\ faults[w] = 0) => workflows[w].status \in Terminal

\* C19: the workflow_type of a run starts as unknown at creation and
\* changes at most once, in the write that takes the status from routing to
\* executing, to the orchestrator's classification; no later step, failure
\* handling included, changes it.
C19_TypeSetOnce ==
    [][\A w \in Workflows :
          workflows'[w].workflow_type # workflows[w].workflow_type
          => \/ /\ workflows[w] = NoRow
                /\ workflows'[w].workflow_type = "unknown"
                /\ workflows'[w].status = "pending"
             \/ /\ workflows[w].workflow_type = "unknown"
                /\ workflows[w].status = "routing"
                /\ workflows'[w].status = "executing"
                /\ workflows'[w].workflow_type = future[w].workflow_type]_vars

\* C19 witness: a run classified ipo that failed after a store call raised.
C19_Witness ==
    /\ pc["w1"] = "done"
    /\ faults["w1"] >= 1
    /\ workflows["w1"].status = "failed"
    /\ workflows["w1"].workflow_type = "ipo"

\* C20: update_workflow_status(id, 'pending') on a workflow whose status is
\* routing, executing, completed or failed leaves the status as it is: no
\* step takes an advanced status to pending.
C20_PendingRejected ==
    [][\A w \in Workflows :
          Rank(workflows[w].status) >= 2 => workflows'[w].status # "pending"]_vars

(***************************************************************************)
(* Properties of the status poll                                           *)
(***************************************************************************)

HasResults == snapshot.step \in {"messages", "done"} /\ snapshot.workflow # NoRow

\* The (status, payload) pairs a list of result rows shows for an agent.
Shown(rows, agent) ==
    {[status |-> rows[i].status, result_data |-> rows[i].result_data] :
         i \in {k \in 1..Len(rows) : rows[k].agent_name = agent}}

\* C7: a snapshot holds at most one result per agent name, and a result it
\* shows for an agent is what every later read of the results shows for
\* that agent.
C7_UpsertAndStable ==
    HasResults =>
        /\ \A i, j \in 1..Len(snapshot.results) :
               i # j => snapshot.results[i].agent_name # snapshot.results[j].agent_name
        /\ \A a \in Agents :
               Shown(snapshot.results, a) # {}
                   => Shown(get_workflow_results(snapshot.id), a) = Shown(snapshot.results, a)

PipelineIndex(agent) ==
    CASE agent = "orchestrator" -> 1
      [] agent = "target_finder" -> 2
      [] agent = "valuer" -> 3

\* C10: a snapshot lists the results in the order orchestrator,
\* target_finder, valuer, in which the pipeline recorded them, and shows no
\* result of a later agent without one of each earlier agent that ran; also
\* when results share a timestamp.
C10_PipelineOrder ==
    HasResults =>
        LET r == snapshot.results
            names == {r[i].agent_name : i \in 1..Len(r)}
        IN /\ \A i, j \in 1..Len(r) :
                  i < j => PipelineIndex(r[i].agent_name) <= PipelineIndex(r[j].agent_name)
           /\ \A a \in names, b \in Range(invoked[snapshot.id]) :
                  PipelineIndex(b) < PipelineIndex(a) => b \in names

IsPrefix(s, t) == Len(s) <= Len(t) /\ s = SubSeq(t, 1, Len(s))

Contents(rows) == {rows[i].content : i \in 1..Len(rows)}
AgentNames(rows) == {rows[i].agent_name : i \in 1..Len(rows)}

\* What holds of the three tables of a workflow at every single instant: the
\* completion message is there only under status completed, a result only
\* once the status left pending, a pipeline result only once it reached
\* executing.
Coherent(workflow, results, msgs) ==
    /\ "analysis_complete" \in Contents(msgs) => workflow.status = "completed"
    /\ results # <<>> => Rank(workflow.status) >= 2
    /\ AgentNames(results) \cap PipelineAgents # {} => Rank(workflow.status) >= 3

\* The store itself is coherent at every instant.
StoreCoherent ==
    \A w \in Workflows :
        Coherent(workflows[w], get_workflow_results(w), get_messages(w))

PollDone == snapshot.step = "done" /\ snapshot.workflow # NoRow

\* C11: what a poll returns (workflow row, results, messages together) is
\* the state of the workflow at one single instant: never status executing
\* with the completion message, never a status older than the results listed.
C11_ConsistentSnapshot ==
    PollDone => Coherent(snapshot.workflow, snapshot.results, snapshot.messages)

\* C14: a poll returns the messages in non-decreasing timestamp order with
\* the initiating user message first, also when the user message and the
\* first assistant messages carry the same timestamp (no store call raising).
C14_MessagesOrdered ==
    (PollDone /\ TotalFaults = 0) =>
        LET m == snapshot.messages
        IN /\ \A i, j \in 1..Len(m) : i < j => m[i].timestamp <= m[j].timestamp
           /\ m # <<>> => m[1].role = "user"

\* C15: the message log is append-only: the list of messages a poll
\* returned is a prefix of the list every later poll of the workflow
\* returns (no message dropped, duplicated or reordered).
C15_AppendOnly ==
    (PollDone /\ TotalFaults = 0) =>
        IsPrefix(snapshot.messages, get_messages(snapshot.id))

\* What get_workflow_summary returns when nothing is written during the call.
Summary(w) ==
    [workflow |-> workflows[w], results |-> get_workflow_results(w),
     messages |-> get_messages(w),
     agent_count |-> Len(get_workflow_results(w)),
     message_count |-> Len(get_messages(w))]

\* Nothing was written to the workflow since the poll read it: every write
\* inserts a result, inserts a message or sets a status.
Unwritten ==
    /\ workflows[snapshot.id].status = snapshot.workflow.status
    /\ Len(workflow_results[snapshot.id]) = Len(snapshot.results)
    /\ Len(messages[snapshot.id]) = Len(snapshot.messages)

Repeatable ==
    (PollDone /\ Unwritten) =>
        Summary(snapshot.id)
            = [workflow |-> snapshot.workflow, results |-> snapshot.results,
               messages |-> snapshot.messages,
               agent_count |-> Len(snapshot.results),
               message_count |-> Len(snapshot.messages)]

StepOf(w) == pc'[w] # pc[w] \/ future'[w] # future[w]

\* The records of w that a poll reads; Summary(w) is a function of them.
Records(w) == <<workflows[w], workflow_results[w], messages[w], tie_order>>

\* C17: a step of the run of one workflow writes only records of that
\* workflow: the records a poll of any other workflow reads, and so what it
\* returns, are unchanged by it, however the steps of two runs interleave.
C17_RunsIndependent ==
    [][\A w, v \in Workflows :
          (w # v /\ StepOf(w)) => Records(v)' = Records(v)]_vars

\* C17 witness: the run of w1 went from start to completed with three
\* results while w2 stayed as start_workflow had left it.
C17_Witness ==
    /\ pc["w1"] = "done"
    /\ workflows["w1"].status = "completed"
    /\ Len(workflow_results["w1"]) = 3
    /\ Returned("w2")
    /\ Summary("w2").agent_count = 0
    /\ Summary("w2").message_count = 1
    /\ Summary("w2").workflow.status = "pending"

(***************************************************************************)
(* Properties of the agent runner                                          *)
(***************************************************************************)

\* C5: within one execute call on a State, agent_results[self.name] is
\* written in_progress first, then once success or error, and never again,
\* wherever an exception is raised.
C5_Lifecycle ==
    state.has_agent_results =>
        /\ \/ IsPrefix(writes, <<"in_progress", "success">>)
           \/ IsPrefix(writes, <<"in_progress", "error">>)
        /\ apc = "end" => Len(writes) = 2

\* C6: an exception of _execute_logic never leaves execute: execute returns
\* with agent_results[self.name] of status error, result None and the
\* exception's message as error_message.
C6_FailureIsData ==
    locals.e.type = "AgentError"
    => /\ returned # "escaped"
       /\ apc \in {"log_error", "end"}
          => state.agent_results[self_name]
                 = AgentResult("error", NoPayload, locals.e.message)
       /\ apc = "end" => returned = "returned"

\* C6 witness: _execute_logic raised and execute has returned.
C6_Witness ==
    /\ apc = "end"
    /\ returned = "returned"
    /\ locals.e = [type |-> "AgentError", message |-> "MalformedUpstreamResponse"]
    /\ writes = <<"in_progress", "error">>

\* C18: no step of execute for agent A, successful or failed, changes the
\* result of another agent in the State, nor the State's messages,
\* user_query or deal.
C18_OtherResultsKept ==
    [][/\ \A b \in Agents \ {self_name} :
             state'.agent_results[b] = state.agent_results[b]
       /\ state'.messages = state.messages
       /\ state'.user_query = state.user_query
       /\ state'.deal = state.deal]_vars

\* C18 witness: valuer's execute failed and returned, in a State that holds
\* the orchestrator's success, target_finder's error and a message.
C18_Witness ==
    /\ apc = "end"
    /\ returned = "returned"
    /\ self_name = "valuer"
    /\ state.agent_results["valuer"].status = "error"
    /\ state.agent_results["orchestrator"]
           = AgentResult("success", EarlierPayload("orchestrator"), "None")
    /\ state.agent_results["target_finder"]
           = AgentResult("error", NoPayload, "ProviderUnavailable")
    /\ state.messages # <<>>

(***************************************************************************)
(* Properties of routing and of agent outcomes in the service engine       *)
(***************************************************************************)

\* C22: a run whose orchestrator result carries no workflow_type, or one
\* outside buyer_ma, seller_ma and ipo, is completed only after
\* target_finder and valuer were run, in that order.
C22_FallbackToBuyer ==
    \A w \in Workflows :
        (/\ workflows[w].workflow_type \notin Modes \cup {NoType, "none"}
         /\ workflows[w].status = "completed")
            => invoked[w] = <<"orchestrator", "target_finder", "valuer">>

\* The three agent calls of the run were made and each handed something
\* back (none raised), and no store call raised.
AllReturned(w) ==
    /\ invoked[w] = <<"orchestrator", "target_finder", "valuer">>
    /\ faults[w] = 0
    /\ \A i \in 1..Len(workflow_results[w]) :
           workflow_results[w][i].result_data # "AgentError"

\* C23: a run routed to buyer_ma in which the three agent calls return and
\* the store never fails ends completed, typed buyer_ma, with exactly three
\* persisted results, one for each agent.
C23_ThreeResults ==
    \A w \in Workflows :
        (Ended(w) /\ AllReturned(w) /\ workflows[w].workflow_type = "buyer_ma")
            => /\ workflows[w].status = "completed"
               /\ Len(workflow_results[w]) = 3
               /\ \A a \in Agents :
                      Cardinality({i \in 1..Len(workflow_results[w]) :
                                      workflow_results[w][i].agent_name = a}) = 1

\* The assistant messages that describe the outcome of an agent's run:
\* lines 96-97 and 117 for the orchestrator, 145-159 for target_finder,
\* 182-192 for valuer.
OutcomeMessages(agent) ==
    CASE agent = "orchestrator" -> {"routing", "workflow_failed"}
      [] agent = "target_finder" -> {"found_targets", "no_targets", "target_finder_error"}
      [] agent = "valuer" -> {"valuation_analysis", "valuation_completed", "valuation_error"}

\* C24: once a run whose store never failed has a terminal status, its log
\* holds, for every agent the run invoked, an assistant message about that
\* agent's outcome.
C24_OutcomeMessages ==
    \A w \in Workflows :
        (workflows[w].status \in Terminal /\ faults[w] = 0)
            => \A a \in Range(invoked[w]) :
                   \E i \in 1..Len(messages[w]) :
                       /\ messages[w][i].role = "assistant"
                       /\ messages[w][i].content \in OutcomeMessages(a)

(***************************************************************************)
(* Properties of the agents' _execute_logic                                *)
(***************************************************************************)

\* C25: when the LLM call of target_finder or valuer raised, the result
\* execute has recorded for the agent has status error and an error_message.
C25_ProviderFailureIsError ==
    (/\ logic.agent \in PipelineAgents
     /\ logic.llm.raised
     /\ apc = "end")
        => /\ state.agent_results[self_name].status = "error"
           /\ state.agent_results[self_name].error_message # "None"

\* C26: the _execute_logic call of an agent leaves the State's mode,
\* messages, agent_results, deal and user_query as it found them.
C26_LogicKeepsState ==
    [][apc = "logic"
       => /\ state'.mode = state.mode
          /\ state'.messages = state.messages
          /\ state'.agent_results = state.agent_results
          /\ state'.deal = state.deal
          /\ state'.user_query = state.user_query]_vars

\* The order in which the orchestrator looks for the mode names.
Priority == <<"seller_ma", "ipo", "buyer_ma">>

\* The first name of Priority among `found`.
FirstFound(found) ==
    Priority[CHOOSE i \in 1..Len(Priority) :
                 /\ Priority[i] \in found
                 /\ \A j \in 1..(i - 1) : Priority[j] \notin found]

\* C28: the orchestrator's _execute_logic returns, as workflow_type, the
\* first of seller_ma, ipo, buyer_ma that occurs in the LLM response; when
\* none occurs or the LLM call raised, the mode of the keyword pass; and it
\* returns (it does not raise) in each of these cases, so that execute
\* records a success.
C28_DefensiveRefinement ==
    logic.agent = "orchestrator"
    => /\ locals.e.type # "AgentError"
       /\ locals.result.workflow_type
              = IF logic.llm_response.raised \/ logic.llm_response.contains = {}
                THEN logic.keyword
                ELSE FirstFound(logic.llm_response.contains)
       /\ (apc = "end" /\ locals.e.type = "none")
              => state.agent_results["orchestrator"]
                     = AgentResult("success", locals.result, "None")

\* C28 witness: the response names ipo and buyer_ma, the keyword pass said
\* seller_ma, and execute has returned ipo; or the LLM call raised and
\* execute has returned the keyword mode.
C28_Witness ==
    /\ logic.agent = "orchestrator"
    /\ apc = "end"
    /\ returned = "returned"
    /\ state.agent_results["orchestrator"].status = "success"
    /\ logic.keyword = "seller_ma"
    /\ \/ /\ logic.llm_response = [raised |-> FALSE, contains |-> {"ipo", "buyer_ma"}]
          /\ state.agent_results["orchestrator"].result = RoutingPayload("ipo")
       \/ /\ logic.llm_response.raised
          /\ state.agent_results["orchestrator"].result = RoutingPayload("seller_ma")

\* C29: whatever the provider lookups did, the targets target_finder
\* returns are the parsed candidates, as many and in the same order, each
\* with its parsed fields unchanged; and in every payload it returns,
\* target_count is the length of targets.
C29_NoCandidateDropped ==
    logic.agent = "target_finder"
    => /\ locals.result.target_count = Len(locals.result.targets)
       /\ ~logic.llm.raised
          => /\ Len(locals.result.targets) = Len(logic.targets)
             /\ \A i \in 1..Len(logic.targets) :
                \A k \in DOMAIN logic.targets[i] :
                    /\ k \in DOMAIN locals.result.targets[i]
                    /\ locals.result.targets[i][k] = logic.targets[i][k]

\* C29 witness: two candidates were parsed, the lookup of the first found
\* nothing and the lookup of the second raised, and execute has returned
\* both.
C29_Witness ==
    /\ logic.agent = "target_finder"
    /\ apc = "end"
    /\ returned = "returned"
    /\ Len(logic.targets) = 2
    /\ logic.targets[1].company_name = "c2"
    /\ logic.targets[2].company_name = "c1"
    /\ logic.lookups = <<"not_found", "raises">>
    /\ state.agent_results["target_finder"].status = "success"
    /\ state.agent_results["target_finder"].result.target_count = 2

\* The revenue the valuer's range is computed from: the provider's
\* totalRevenue when the analysis took it and it is not None or 0, else the
\* estimate read from the candidate's text (0 when there is none).
Valued(l) ==
    Revenue(_perform_financial_analysis(l.target_info, l.info).metrics)

C21_RouteTotal ==
    node # "route"
    => /\ node \in {"buyer_ma_workflow", "seller_ma_workflow", "ipo_workflow"}
       /\ node = "seller_ma_workflow" <=> state.mode = "seller_ma"
       /\ node = "ipo_workflow" <=> state.mode = "ipo"
       /\ node = "buyer_ma_workflow" <=> state.mode \notin {"seller_ma", "ipo"}

\* C21 witness: a State without a mode has been routed to the buyer_ma
\* workflow.
C21_Witness ==
    /\ node = "buyer_ma_workflow"
    /\ state.mode = NoMode

\* The orchestrator's execute has returned in this run.
OrchestratorExecuted ==
    \/ node # "orchestrator"
    \/ self_name = "orchestrator" /\ apc = "end"

\* The message each workflow node ends with.
CompletionMessage ==
    [buyer_ma |-> "buyer_ma_completed", seller_ma |-> "seller_ma_initiated",
     ipo |-> "ipo_initiated"]

\* C27: once the orchestrator's execute has returned without an exception,
\* on a State created with whatever mode, its result has status success and
\* a workflow_type that is buyer_ma, seller_ma or ipo, the State's mode is
\* that workflow_type, and the graph goes to the workflow of that value and
\* to no other (while the graph runs: the State run returns after an
\* exception is a copy of the one it created).
C27_ModeIsRoutedType ==
    LET orchestrator == state.agent_results["orchestrator"]
    IN  /\ (node = "orchestrator" /\ self_name = "orchestrator" /\ apc = "end"
            /\ locals.e.type = "none")
               => orchestrator.status = "success"
        /\ (OrchestratorExecuted /\ node # "run_except" /\ orchestrator.status = "success")
               => /\ "workflow_type" \in DOMAIN orchestrator.result
                  /\ orchestrator.result.workflow_type \in Modes
                  /\ state.mode = orchestrator.result.workflow_type
                  /\ node \notin {"orchestrator", "route", "END"}
                         => node = ConditionalEdges[orchestrator.result.workflow_type]
                  /\ node = "END"
                         => state.messages[Len(state.messages)].content
                                = CompletionMessage[orchestrator.result.workflow_type]

\* C27 witness: on a State created with mode seller_ma the orchestrator
\* returned ipo, and the run went through the ipo workflow to its end.
C27_Witness ==
    /\ node = "END"
    /\ state.deal.deal_type = "seller_ma"
    /\ state.agent_results["orchestrator"]
           = AgentResult("success", RoutingPayload("ipo"), "None")
    /\ state.mode = "ipo"
    /\ state.workflow_status = "completed"
    /\ state.messages = <<[role |-> "assistant", content |-> "ipo_initiated"]>>

(***************************************************************************)
(* Valuer and the target_finder result it depends on                       *)
(***************************************************************************)

\* What the deal says of the target.
DealMetadata(st) == [company_name |-> st.deal.company_name, industry |-> st.deal.industry]

\* The target_finder entry of the State holds a candidate valuer can use.
HasUsableCandidate(st) ==
    /\ st.agent_results["target_finder"].status = "success"
    /\ st.agent_results["target_finder"].result.targets # <<>>

\* C31: once valuer's _execute_logic has run, its target is the deal
\* metadata updated with the first candidate of the target_finder result when
\* that result is there with status success and a non-empty targets list,
\* and the deal metadata alone in every other case (no entry, status error
\* or in_progress, no targets); in both cases it returned a payload, which
\* names the target.
C31_GracefulDegradation ==
    logic.agent = "valuer" =>
        /\ logic.target_info =
               IF HasUsableCandidate(state)
               THEN Update(DealMetadata(state),
                           state.agent_results["target_finder"].result.targets[1])
               ELSE DealMetadata(state)
        /\ "target_company" \in DOMAIN locals.result
        /\ locals.result.target_company = logic.target_info.company_name

\* valuer has returned with status success from a State whose target_finder
\* entry is in_progress, having valued what the deal names
C31_Witness ==
    /\ logic.agent = "valuer"
    /\ state.agent_results["target_finder"].status = "in_progress"
    /\ logic.target_info = DealMetadata(state)
    /\ returned = "returned"
    /\ state.agent_results["valuer"].status = "success"

(***************************************************************************)
(* updated_at                                                              *)
(***************************************************************************)

\* C32: every step that changes a record of workflow W (its row, its
\* results or its messages) leaves W's updated_at at the time of the step,
\* and no step lets updated_at go back.
C32_UpdatedAtBumped ==
    [][\A w \in Workflows :
           /\ workflows'[w].updated_at >= workflows[w].updated_at
           /\ (\/ workflows'[w] # workflows[w]
               \/ workflow_results'[w] # workflow_results[w]
               \/ messages'[w] # messages[w])
              => workflows'[w].updated_at = clock]_vars

(***************************************************************************)
(* The statuses of agent results                                           *)
(***************************************************************************)

AgentResultStatuses == {"in_progress", "success", "error"}

\* C34: every agent result the service engine has persisted, on its failure
\* paths as on the others, has a status among in_progress, success and error.
C34_ResultStatuses ==
    \A w \in Workflows : \A i \in 1..Len(workflow_results[w]) :
        workflow_results[w][i].status \in AgentResultStatuses

(***************************************************************************)
(* serialize_state and deserialize_state (utils/state.py)                  *)
(***************************************************************************)

\* Python values a caller passes as `result: Any`, besides None (NoPayload)
\* and the dicts the agents return: a str, a list, a tuple, and an object
\* json has no form for (a datetime, a coroutine), known by its str().
PyStr(value) == [py |-> "str", value |-> value]
PyList(items) == [py |-> "list", items |-> items]
PyTuple(items) == [py |-> "tuple", items |-> items]
PyObject(str) == [py |-> "object", str |-> str]

\* JSON texts, by what they denote.
JsonNull == [json |-> "null"]
JsonString(value) == [json |-> "string", value |-> value]
JsonArray(items) == [json |-> "array", items |-> items]
JsonObject(members) == [json |-> "object", members |-> members]

\* json.dumps(value, default=str) of one value: None is null, a str a
\* string, a list and a tuple alike an array, a dict with str keys an object
\* of the same members; for anything else the encoder calls default, str,
\* and writes the string it returns.
dumps(value) ==
    IF value = NoPayload THEN JsonNull
    ELSE IF "py" \notin DOMAIN value THEN JsonObject(value)
    ELSE IF value.py = "str" THEN JsonString(value.value)
    ELSE IF value.py \in {"list", "tuple"} THEN JsonArray(value.items)
    ELSE JsonString(value.str)

\* json.loads of one value: null is None, a string a str, an array a list,
\* an object a dict.
loads(text) ==
    IF text.json = "null" THEN NoPayload
    ELSE IF text.json = "string" THEN PyStr(text.value)
    ELSE IF text.json = "array" THEN PyList(text.items)
    ELSE text.members

\* serialize_state, line 141: json.dumps(state, indent=2, default=str).  The
\* State is a dict of str keys whose values are strs, None, lists and dicts
\* of the same, which are written as they are; the `result` of an entry of
\* agent_results is whatever update_agent_result was given.
serialize_state(st) ==
    JsonObject([st EXCEPT !.agent_results =
                              [a \in DOMAIN @ |-> [@[a] EXCEPT !.result = dumps(@)]]])

\* deserialize_state, line 146: json.loads(state_json)
deserialize_state(state_json) ==
    [state_json.members EXCEPT !.agent_results =
                                   [a \in DOMAIN @ |-> [@[a] EXCEPT !.result = loads(@)]]]

\* The arguments of the calls that build a State.
MaxMessages == 1
MessageRoles == {"user", "assistant"}
ResultValues ==
    {NoPayload, RoutingPayload("buyer_ma"), TargetsPayload(<<>>), PyStr("text"),
     PyList(<<"a", "b">>), PyTuple(<<"a", "b">>), PyObject("2026-01-01 00:00:00")}

SerialFrame == UNCHANGED <<dbvars, clock, envvars, svcvars, snapshot, apc, self_name,
                           locals, writes, returned, logic, node>>

\* state = add_message(state, role, content)
AddMessage ==
    /\ serialized_state = NoJson
    /\ Len(state.messages) < MaxMessages
    /\ \E role \in MessageRoles :
           state' = append_message(state, role, "Test message")
    /\ UNCHANGED serialvars
    /\ SerialFrame

\* state = update_agent_result(state, agent_name, status, result, ...)
UpdateAgentResult ==
    /\ serialized_state = NoJson
    /\ \E agent_name \in Agents :
           /\ state.agent_results[agent_name] = NoResult
           /\ \/ state' = update_agent_result(state, agent_name, "in_progress",
                                              NoPayload, "None")
              \/ \E result \in ResultValues :
                     state' = update_agent_result(state, agent_name, "success",
                                                  result, "None")
              \/ \E error_message \in ErrorMessages :
                     state' = update_agent_result(state, agent_name, "error",
                                                  NoPayload, error_message)
    /\ UNCHANGED serialvars
    /\ SerialFrame

\* state = update_deal_info(state, company_name=..., industry=...)
UpdateDealInfo ==
    /\ serialized_state = NoJson
    /\ state.deal.company_name = "None"
    /\ state' = update_deal_info(state, NamedDeal)
    /\ UNCHANGED serialvars
    /\ SerialFrame

\* serialized_state = serialize_state(state)
SerializeState ==
    /\ serialized_state = NoJson
    /\ serialized_state' = serialize_state(state)
    /\ UNCHANGED <<state, deserialized_state>>
    /\ SerialFrame

\* deserialized_state = deserialize_state(serialized_state)
DeserializeState ==
    /\ serialized_state # NoJson
    /\ deserialized_state = NoState
    /\ deserialized_state' = deserialize_state(serialized_state)
    /\ UNCHANGED <<state, serialized_state>>
    /\ SerialFrame

\* state = create_initial_state("buyer_ma", "Test query")
InitSerial ==
    /\ ServiceIdle
    /\ apc = "off"
    /\ self_name = "none"
    /\ state = CreatedState("buyer_ma", [a \in Agents |-> NoResult], <<>>)
    /\ locals = NoLocals
    /\ writes = <<>>
    /\ returned = "off"
    /\ logic = NoLogic
    /\ node = "off"
    /\ serialized_state = NoJson
    /\ deserialized_state = NoState

NextSerial ==
    \/ AddMessage
    \/ UpdateAgentResult
    \/ UpdateDealInfo
    \/ SerializeState
    \/ DeserializeState

SpecSerial == InitSerial /\ [][NextSerial]_vars

\* C35: the State deserialize_state makes of serialize_state(state) equals
\* state, for every state built by create_initial_state, add_message,
\* update_agent_result and update_deal_info.
C35_RoundTrip ==
    deserialized_state # NoState => deserialized_state = state

(***************************************************************************)
(* The graph engine after a failed orchestrator                            *)
(***************************************************************************)

\* C36: in a run of the graph whose orchestrator entry has status error, no
\* agent but the orchestrator has been called and workflow_status is not
\* completed.
C36_OrchestratorErrorStops ==
    (node # "off" /\ state.agent_results["orchestrator"].status = "error")
    => /\ self_name = "orchestrator"
       /\ state.workflow_status # "completed"

(***************************************************************************)
(* The State the service engine hands to valuer                            *)
(***************************************************************************)

\* The `state` argument of a call in the pool: run_in_executor(self.executor,
\* agent.execute, state), lines 87-89, 132-134 and 169-171.
StateOf(item) == ServiceState

\* target_finder's call returned a dict with at least one candidate, which
\* the task has saved and reported.
FoundTargets(w) ==
    \E i \in 1..Len(messages[w]) : messages[w][i].content = "found_targets"

\* C37: in a run in which target_finder succeeded with at least one
\* candidate, the State handed to valuer holds target_finder's result under
\* agent_results, with status success and its candidates, so that valuer's
\* target is the first of them.
C37_ValuerSeesTargets ==
    \A item \in executor :
        (item.agent = "valuer" /\ FoundTargets(item.wf))
        => /\ StateOf(item).has_agent_results
           /\ HasUsableCandidate(StateOf(item))

(***************************************************************************)
(* Writes after a terminal status was observed                             *)
(***************************************************************************)

\* C38: once a poll has read a status of completed or failed for a
\* workflow, no step writes a message, a result or a status of that workflow.
C38_TerminalEndsWrites ==
    [][\A w \in Workflows :
           (snapshot.id = w /\ snapshot.workflow.status \in Terminal)
           => /\ messages'[w] = messages[w]
              /\ workflow_results'[w] = workflow_results[w]
              /\ workflows'[w] = workflows[w]]_vars

(***************************************************************************)
(* The persisted state of a service-engine workflow                        *)
(***************************************************************************)

HasResult(w, agent_name, status) ==
    \E i \in 1..Len(workflow_results[w]) :
        /\ workflow_results[w][i].agent_name = agent_name
        /\ workflow_results[w][i].status = status

\* C39: in the store, a status of executing or completed comes with a
\* success result of the orchestrator and a workflow_type that is not
\* unknown; and a result of target_finder or valuer is there only with a
\* status of executing, completed or failed and a workflow_type of buyer_ma
\* or seller_ma.
C39_PersistedState ==
    \A w \in Workflows :
        /\ workflows[w].status \in {"executing", "completed"}
               => /\ HasResult(w, "orchestrator", "success")
                  /\ workflows[w].workflow_type # "unknown"
        /\ (\E i \in 1..Len(workflow_results[w]) :
                workflow_results[w][i].agent_name \in PipelineAgents)
               => /\ workflows[w].status \in {"executing", "completed", "failed"}
                  /\ workflows[w].workflow_type \in {"buyer_ma", "seller_ma"}

(***************************************************************************)
(* current_agent                                                           *)
(***************************************************************************)

\* The execute call of self_name has written in_progress and not yet its
\* final status.
BetweenWrites == writes = <<"in_progress">>

\* C33: in every State of a run of the graph, current_agent names an agent
\* only if that agent's entry has status in_progress; it names the running
\* agent from its in_progress write to its final write and is None
\* otherwise; it is None once execute has returned, and at the end of the
\* run, completed or failed.
C33_CurrentAgentTracks ==
    /\ \A a \in Agents :
           state.current_agent = a => state.agent_results[a].status = "in_progress"
    /\ BetweenWrites => state.current_agent = self_name
    /\ ~BetweenWrites => state.current_agent = "None"
    /\ returned = "returned" => state.current_agent = "None"
    /\ node \in {"END", "run_except"} => state.current_agent = "None"

\* The buyer workflow ran to its end: valuer, the last agent, was in progress
\* and returned with success, and no agent is current.
C33_Witness ==
    /\ node = "END"
    /\ self_name = "valuer"
    /\ writes = <<"in_progress", "success">>
    /\ returned = "returned"
    /\ state.agent_results["valuer"].status = "success"
    /\ state.current_agent = "None"

====
